---- MODULE Spec2Model ----
(***************************************************************************)
(* Model of m3u8-parse-sort: the master-playlist parser (src/parser.rs),   *)
(* its serializers (Display, write_to) and the two-key sort engine         *)
(* (src/sort.rs).                                                          *)
(*                                                                         *)
(* Text is a sequence of one-character strings.  A u32 is kept as its      *)
(* canonical decimal digit sequence (so the full 32-bit range is           *)
(* represented without overflowing the checker's integers); Option<T> is   *)
(* <<>> for None and <<v>> for Some(v).                                    *)
(***************************************************************************)
EXTENDS Integers, Sequences, FiniteSets, TLC

(***************************************************************************)
(* Characters                                                              *)
(***************************************************************************)
LF == "\n"
CR == "\r"
TAB == "\t"
QUOTE == "\""

Digits == {"0", "1", "2", "3", "4", "5", "6", "7", "8", "9"}
Upper == {"A", "B", "C", "D", "E", "F", "G", "H", "I", "J", "K", "L", "M",
          "N", "O", "P", "Q", "R", "S", "T", "U", "V", "W", "X", "Y", "Z"}
Lower == {"a", "b", "c", "d", "e", "f", "g", "h", "i", "j", "k", "l", "m",
          "n", "o", "p", "q", "r", "s", "t", "u", "v", "w", "x", "y", "z"}

\* char::is_alphanumeric() || c == '-'   (parse_key)
KeyChars == Upper \cup Lower \cup Digits \cup {"-"}

\* char::is_whitespace, as used by str::trim
WhiteSpace == {" ", TAB, LF, CR}

\* The characters of the model in byte order (String::cmp is bytewise).
Ascii ==
  <<TAB, LF, CR, " ", "!", QUOTE, "#", "$", "%", "&", "'", "(", ")", "*", "+",
    ",", "-", ".", "/", "0", "1", "2", "3", "4", "5", "6", "7", "8", "9", ":",
    ";", "<", "=", ">", "?", "@", "A", "B", "C", "D", "E", "F", "G", "H", "I",
    "J", "K", "L", "M", "N", "O", "P", "Q", "R", "S", "T", "U", "V", "W", "X",
    "Y", "Z", "[", "\\", "]", "^", "_", "a", "b", "c", "d", "e", "f", "g",
    "h", "i", "j", "k", "l", "m", "n", "o", "p", "q", "r", "s", "t", "u", "v",
    "w", "x", "y", "z", "{", "|", "}", "~">>

Code(c) == CHOOSE i \in 1..Len(Ascii) : Ascii[i] = c

(***************************************************************************)
(* std::cmp::Ordering and the comparisons of the standard library          *)
(***************************************************************************)
Less == "Less"
Equal == "Equal"
Greater == "Greater"

CmpInt(a, b) == IF a < b THEN Less ELSE IF a > b THEN Greater ELSE Equal

\* First index at which two sequences differ, 0 if one is a prefix of the other.
FirstDiff(a, b) ==
  LET m == IF Len(a) < Len(b) THEN Len(a) ELSE Len(b)
      D == {i \in 1..m : a[i] # b[i]}
  IN IF D = {} THEN 0 ELSE CHOOSE i \in D : \A j \in D : i <= j

\* <str as Ord>::cmp: lexicographic on bytes, a proper prefix is smaller.
CmpStr(a, b) ==
  LET d == FirstDiff(a, b)
  IN IF d = 0 THEN CmpInt(Len(a), Len(b)) ELSE CmpInt(Code(a[d]), Code(b[d]))

\* u32::cmp on canonical digit sequences: shorter is smaller, then digitwise.
CmpU32(a, b) ==
  IF Len(a) # Len(b) THEN CmpInt(Len(a), Len(b)) ELSE CmpStr(a, b)

(***************************************************************************)
(* Text helpers                                                            *)
(***************************************************************************)
Drop(s, n) == SubSeq(s, n + 1, Len(s))
Take(s, n) == SubSeq(s, 1, n)

\* str::starts_with
StartsWith(s, p) == Len(s) >= Len(p) /\ Take(s, Len(p)) = p

\* Length of the longest prefix of s holding no character of stop.
PrefixLen(s, stop) ==
  LET H == {i \in 1..Len(s) : s[i] \in stop}
  IN IF H = {} THEN Len(s) ELSE (CHOOSE i \in H : \A j \in H : i <= j) - 1

\* Length of the longest prefix of s made of characters of keep.
SpanLen(s, keep) ==
  LET H == {i \in 1..Len(s) : s[i] \notin keep}
  IN IF H = {} THEN Len(s) ELSE (CHOOSE i \in H : \A j \in H : i <= j) - 1

\* str::trim
Trim(s) ==
  LET K == {i \in 1..Len(s) : s[i] \notin WhiteSpace}
  IN IF K = {} THEN <<>>
     ELSE SubSeq(s, CHOOSE i \in K : \A j \in K : i <= j,
                    CHOOSE i \in K : \A j \in K : i >= j)

(***************************************************************************)
(* nom (complete) combinators.  A result is [ok, rest, val] on success and *)
(* [ok, err, code, input] on failure; err is the variant of nom::Err.      *)
(***************************************************************************)
Ok(rest, val) == [ok |-> TRUE, rest |-> rest, val |-> val]
Err(input, code) == [ok |-> FALSE, err |-> "Error", code |-> code, input |-> input]

\* nom::bytes::complete::tag
Tag(t, s) == IF StartsWith(s, t) THEN Ok(Drop(s, Len(t)), t) ELSE Err(s, "Tag")

\* nom::character::complete::line_ending
LineEnding(s) ==
  IF StartsWith(s, <<LF>>) THEN Ok(Drop(s, 1), <<LF>>)
  ELSE IF StartsWith(s, <<CR, LF>>) THEN Ok(Drop(s, 2), <<CR, LF>>)
  ELSE Err(s, "CrLf")

\* nom::character::complete::not_line_ending
NotLineEnding(s) ==
  LET n == PrefixLen(s, {CR, LF})
  IN IF n = Len(s) THEN Ok(<<>>, s)
     ELSE IF s[n + 1] = CR /\ ~StartsWith(Drop(s, n), <<CR, LF>>) THEN Err(s, "Tag")
     ELSE Ok(Drop(s, n), Take(s, n))

\* nom::bytes::complete::is_not
IsNot(stop, s) ==
  LET n == PrefixLen(s, stop)
  IN IF n = 0 THEN Err(s, "IsNot") ELSE Ok(Drop(s, n), Take(s, n))

\* nom::bytes::complete::take_while1
TakeWhile1(keep, s) ==
  LET n == SpanLen(s, keep)
  IN IF n = 0 THEN Err(s, "TakeWhile1") ELSE Ok(Drop(s, n), Take(s, n))

(***************************************************************************)
(* Attribute grammar                                                       *)
(***************************************************************************)
\* let x = v;  K is the rest of the function body.  The value is computed
\* once, whatever the number of uses K makes of it.
Let(v, K(_)) == CHOOSE y \in {K(x) : x \in {v}} : TRUE

\* let (input, x) = parser(input)?;  K is the rest of the function body.
Bind(r, K(_)) == Let(r, LAMBDA x : IF x.ok THEN K(x) ELSE x)

parse_key(s) == TakeWhile1(KeyChars, s)

parse_quoted_string(s) ==
  Bind(Tag(<<QUOTE>>, s), LAMBDA q1 :
  Bind(IsNot({QUOTE}, q1.rest), LAMBDA v :
  Bind(Tag(<<QUOTE>>, v.rest), LAMBDA q2 :
  Ok(q2.rest, v.val))))

TrimVal(v) == Ok(v.rest, Trim(v.val))

parse_unquoted_string(s) == Bind(IsNot({","}, s), TrimVal)

parse_quoted_or_unquoted_string(s) ==
  IF StartsWith(s, <<QUOTE>>) THEN parse_quoted_string(s)
  ELSE parse_unquoted_string(s)

\* separated_pair(parse_key, tag("="), parse_quoted_or_unquoted_string)
KeyValuePair(s) ==
  Bind(parse_key(s), LAMBDA k :
  Bind(Tag(<<"=">>, k.rest), LAMBDA e :
  Bind(parse_quoted_or_unquoted_string(e.rest), LAMBDA v :
  Ok(v.rest, <<k.val, v.val>>))))

\* The loop of separated_list1 after the first element: i is the input left,
\* res the pairs so far.  A failing separator or a failing element ends the
\* list at i, before the separator.
RECURSIVE SeparatedListLoop(_, _)
ListElement(i, res, el) ==
  IF ~el.ok THEN Ok(i, res) ELSE SeparatedListLoop(el.rest, Append(res, el.val))
ListSeparator(i, res, sep) ==
  IF ~sep.ok THEN Ok(i, res)
  ELSE Let(KeyValuePair(sep.rest), LAMBDA el : ListElement(i, res, el))
SeparatedListLoop(i, res) ==
  Let(Tag(<<",">>, i), LAMBDA sep : ListSeparator(i, res, sep))

\* separated_list1(tag(","), separated_pair(...))
KeyValueList(s) ==
  Bind(KeyValuePair(s), LAMBDA first : SeparatedListLoop(first.rest, <<first.val>>))

(***************************************************************************)
(* Literals of the format                                                  *)
(***************************************************************************)
TagExtM3U == <<"#", "E", "X", "T", "M", "3", "U">>
TagIndependentSegments ==
  <<"#", "E", "X", "T", "-", "X", "-", "I", "N", "D", "E", "P", "E", "N",
    "D", "E", "N", "T", "-", "S", "E", "G", "M", "E", "N", "T", "S">>
PrefixIFrame ==
  <<"#", "E", "X", "T", "-", "X", "-", "I", "-", "F", "R", "A", "M", "E",
    "-", "S", "T", "R", "E", "A", "M", "-", "I", "N", "F">>
PrefixStream ==
  <<"#", "E", "X", "T", "-", "X", "-", "S", "T", "R", "E", "A", "M", "-",
    "I", "N", "F">>
PrefixMedia == <<"#", "E", "X", "T", "-", "X", "-", "M", "E", "D", "I", "A">>
TagIFrame == PrefixIFrame \o <<":">>
TagStream == PrefixStream \o <<":">>
TagMedia == PrefixMedia \o <<":">>

K_BANDWIDTH == <<"B", "A", "N", "D", "W", "I", "D", "T", "H">>
K_AVERAGE_BANDWIDTH ==
  <<"A", "V", "E", "R", "A", "G", "E", "-", "B", "A", "N", "D", "W", "I",
    "D", "T", "H">>
K_CODECS == <<"C", "O", "D", "E", "C", "S">>
K_RESOLUTION == <<"R", "E", "S", "O", "L", "U", "T", "I", "O", "N">>
K_FRAME_RATE == <<"F", "R", "A", "M", "E", "-", "R", "A", "T", "E">>
K_VIDEO_RANGE == <<"V", "I", "D", "E", "O", "-", "R", "A", "N", "G", "E">>
K_AUDIO == <<"A", "U", "D", "I", "O">>
K_CLOSED_CAPTIONS ==
  <<"C", "L", "O", "S", "E", "D", "-", "C", "A", "P", "T", "I", "O", "N",
    "S">>
K_TYPE == <<"T", "Y", "P", "E">>
K_GROUP_ID == <<"G", "R", "O", "U", "P", "-", "I", "D">>
K_NAME == <<"N", "A", "M", "E">>
K_LANGUAGE == <<"L", "A", "N", "G", "U", "A", "G", "E">>
K_DEFAULT == <<"D", "E", "F", "A", "U", "L", "T">>
K_AUTOSELECT == <<"A", "U", "T", "O", "S", "E", "L", "E", "C", "T">>
K_CHANNELS == <<"C", "H", "A", "N", "N", "E", "L", "S">>
K_URI == <<"U", "R", "I">>

(***************************************************************************)
(* Numbers: str::parse::<u32>, str::parse::<f32> and their Display         *)
(***************************************************************************)
None == <<>>
Some(v) == <<v>>

U32Max == <<"4", "2", "9", "4", "9", "6", "7", "2", "9", "5">>
Zero == <<"0">>

\* Digits without leading zeros ("0" for zero).
StripZeros(ds) ==
  LET n == SpanLen(ds, {"0"})
  IN IF n = Len(ds) THEN Zero ELSE Drop(ds, n)

\* <u32 as FromStr>::from_str: an optional '+', then one or more digits, value
\* at most u32::MAX.  [ok, val].
ParseU32(s) ==
  Let(IF StartsWith(s, <<"+">>) THEN Drop(s, 1) ELSE s, LAMBDA ds :
    IF ds = <<>> \/ SpanLen(ds, Digits) # Len(ds)
      THEN [ok |-> FALSE, val |-> Zero]
    ELSE Let(StripZeros(ds), LAMBDA v :
      IF CmpU32(v, U32Max) = Greater THEN [ok |-> FALSE, val |-> Zero]
      ELSE [ok |-> TRUE, val |-> v]))

\* value.parse().unwrap_or(0)
\* (ParseDigitsOrZero: the same for a u32 without an upper limit.)
ParseDigitsOrZero(s) ==
  IF s # <<>> /\ SpanLen(s, Digits) = Len(s) THEN StripZeros(s) ELSE Zero
ParseU32OrZero(s) == ParseU32(s).val

\* An f32 is NaN or a non-negative decimal [int, frac] in normal form (no
\* leading zeros in int, no trailing zeros in frac).  Exact for the literals
\* of at most six significant digits, which an f32 holds and prints back.
NaN == [nan |-> TRUE, int |-> <<>>, frac |-> <<>>]
F32(int, frac) == [nan |-> FALSE, int |-> int, frac |-> frac]
F32Zero == F32(Zero, <<>>)
NaNText == <<"N", "a", "N">>

StripTrailingZeros(ds) ==
  LET K == {i \in 1..Len(ds) : ds[i] # "0"}
  IN IF K = {} THEN <<>> ELSE Take(ds, CHOOSE i \in K : \A j \in K : i >= j)

\* <f32 as FromStr>::from_str on "NaN" and on unsigned decimals d+, d+.d*, .d+
\* (the forms the model feeds it); unwrap_or(0.0) for the rest.
ParseF32OrZero(s) ==
  IF s = NaNText THEN NaN
  ELSE LET n == SpanLen(s, Digits)
           int == Take(s, n)
           tail == Drop(s, n)
           frac == IF tail = <<>> THEN <<>> ELSE Drop(tail, 1)
           wellFormed == /\ tail = <<>> \/ tail[1] = "."
                         /\ SpanLen(frac, Digits) = Len(frac)
                         /\ Len(int) + Len(frac) > 0
       IN IF wellFormed THEN F32(StripZeros(int), StripTrailingZeros(frac))
          ELSE F32Zero

\* <f32 as Display>::fmt
FmtF32(f) ==
  IF f.nan THEN NaNText
  ELSE IF f.frac = <<>> THEN f.int ELSE f.int \o <<".">> \o f.frac

\* f32::partial_cmp: None (here "None") when either side is NaN.
PartialCmpF32(a, b) ==
  IF a.nan \/ b.nan THEN "None"
  ELSE IF CmpU32(a.int, b.int) # Equal THEN CmpU32(a.int, b.int)
  ELSE CmpStr(a.frac, b.frac)

\* str::split(c): the pieces between occurrences of c.
RECURSIVE Split(_, _)
Split(s, c) ==
  LET n == PrefixLen(s, {c})
  IN IF n = Len(s) THEN <<s>> ELSE <<Take(s, n)>> \o Split(Drop(s, n + 1), c)

\* The RESOLUTION arm: Some((w, h)) when the value splits on 'x' into two
\* parts that both parse, otherwise the field is left as it was.
ParseResolution(value, old) ==
  LET parts == Split(value, "x")
  IN IF Len(parts) = 2 /\ ParseU32(parts[1]).ok /\ ParseU32(parts[2]).ok
       THEN Some(<<ParseU32(parts[1]).val, ParseU32(parts[2]).val>>)
     ELSE old

(***************************************************************************)
(* Records and record parsers                                              *)
(***************************************************************************)
\* StreamVariant { bandwidth: 0, .., uri: String::new() }
DefaultStreamVariant ==
  [bandwidth |-> Zero, average_bandwidth |-> None, codecs |-> None,
   resolution |-> None, frame_rate |-> None, video_range |-> None,
   audio |-> None, closed_captions |-> None, uri |-> <<>>]

DefaultMediaTrack ==
  [track_type |-> None, group_id |-> None, name |-> None, language |-> None,
   default |-> None, autoselect |-> None, channels |-> None, uri |-> None]

DefaultIFrameStream ==
  [bandwidth |-> Zero, codecs |-> None, resolution |-> None,
   video_range |-> None, uri |-> <<>>]

\* One arm of the match on key in parse_stream_variant.
StreamArm(r, key, value) ==
  IF key = K_BANDWIDTH THEN [r EXCEPT !.bandwidth = ParseU32OrZero(value)]
  ELSE IF key = K_AVERAGE_BANDWIDTH
    THEN [r EXCEPT !.average_bandwidth = Some(ParseU32OrZero(value))]
  ELSE IF key = K_CODECS THEN [r EXCEPT !.codecs = Some(value)]
  ELSE IF key = K_RESOLUTION
    THEN [r EXCEPT !.resolution = ParseResolution(value, r.resolution)]
  ELSE IF key = K_FRAME_RATE
    THEN [r EXCEPT !.frame_rate = Some(ParseF32OrZero(value))]
  ELSE IF key = K_VIDEO_RANGE THEN [r EXCEPT !.video_range = Some(value)]
  ELSE IF key = K_AUDIO THEN [r EXCEPT !.audio = Some(value)]
  ELSE IF key = K_CLOSED_CAPTIONS THEN [r EXCEPT !.closed_captions = Some(value)]
  ELSE r

\* One arm of the match on key in parse_media_track.
MediaArm(r, key, value) ==
  IF key = K_TYPE THEN [r EXCEPT !.track_type = Some(value)]
  ELSE IF key = K_GROUP_ID THEN [r EXCEPT !.group_id = Some(value)]
  ELSE IF key = K_NAME THEN [r EXCEPT !.name = Some(value)]
  ELSE IF key = K_LANGUAGE THEN [r EXCEPT !.language = Some(value)]
  ELSE IF key = K_DEFAULT THEN [r EXCEPT !.default = Some(value)]
  ELSE IF key = K_AUTOSELECT THEN [r EXCEPT !.autoselect = Some(value)]
  ELSE IF key = K_CHANNELS THEN [r EXCEPT !.channels = Some(value)]
  ELSE IF key = K_URI THEN [r EXCEPT !.uri = Some(value)]
  ELSE r

\* One arm of the match on key in parse_iframe_stream.
IFrameArm(r, key, value) ==
  IF key = K_BANDWIDTH THEN [r EXCEPT !.bandwidth = ParseU32OrZero(value)]
  ELSE IF key = K_CODECS THEN [r EXCEPT !.codecs = Some(value)]
  ELSE IF key = K_RESOLUTION
    THEN [r EXCEPT !.resolution = ParseResolution(value, r.resolution)]
  ELSE IF key = K_VIDEO_RANGE THEN [r EXCEPT !.video_range = Some(value)]
  ELSE IF key = K_URI THEN [r EXCEPT !.uri = value]
  ELSE r

\* for (key, value) in key_value_pairs { match key.as_str() { .. } }
RECURSIVE FoldStream(_, _)
FoldStream(r, kvs) ==
  IF kvs = <<>> THEN r
  ELSE FoldStream(StreamArm(r, kvs[1][1], kvs[1][2]), Tail(kvs))

RECURSIVE FoldMedia(_, _)
FoldMedia(r, kvs) ==
  IF kvs = <<>> THEN r
  ELSE FoldMedia(MediaArm(r, kvs[1][1], kvs[1][2]), Tail(kvs))

RECURSIVE FoldIFrame(_, _)
FoldIFrame(r, kvs) ==
  IF kvs = <<>> THEN r
  ELSE FoldIFrame(IFrameArm(r, kvs[1][1], kvs[1][2]), Tail(kvs))

parse_uri(s) == NotLineEnding(s)

parse_stream_variant(input) ==
  Bind(Tag(TagStream, input), LAMBDA t :
  Bind(NotLineEnding(t.rest), LAMBDA line :
  Bind(KeyValueList(line.val), LAMBDA kv :
  Bind(LineEnding(line.rest), LAMBDA nl :
  Bind(parse_uri(nl.rest), LAMBDA u :
  Ok(u.rest, [FoldStream(DefaultStreamVariant, kv.val) EXCEPT !.uri = u.val]))))))

\* The attribute grammar runs over all of the remaining input, not one line.
parse_media_track(input) ==
  Bind(Tag(TagMedia, input), LAMBDA t :
  Bind(KeyValueList(t.rest), LAMBDA kv :
  Ok(kv.rest, FoldMedia(DefaultMediaTrack, kv.val))))

parse_iframe_stream(input) ==
  Bind(Tag(TagIFrame, input), LAMBDA t :
  Bind(NotLineEnding(t.rest), LAMBDA line :
  Bind(KeyValueList(line.val), LAMBDA kv :
  Ok(line.rest, FoldIFrame(DefaultIFrameStream, kv.val)))))

\* (parse_extm3u_tag_only: the same without line_ending.)
parse_extm3u_tag_only(input) == Tag(TagExtM3U, input)
parse_extm3u(input) ==
  Bind(Tag(TagExtM3U, input), LAMBDA t : LineEnding(t.rest))

parse_ext_x_independent_segments(input) ==
  Bind(Tag(TagIndependentSegments, input), LAMBDA t : LineEnding(t.rest))

(***************************************************************************)
(* Serializers                                                             *)
(***************************************************************************)
\* parts.join(",")
RECURSIVE Join(_, _)
Join(parts, sep) ==
  IF parts = <<>> THEN <<>>
  ELSE IF Len(parts) = 1 THEN parts[1]
  ELSE parts[1] \o sep \o Join(Tail(parts), sep)

\* format!("KEY={}", v) and format!("KEY=\"{}\"", v)
Bare(key, v) == key \o <<"=">> \o v
\* (QuotedAsBare: the second without its quotes.)
QuotedAsBare(key, v) == key \o <<"=">> \o v
Quoted(key, v) == key \o <<"=", QUOTE>> \o v \o <<QUOTE>>

\* The part pushed for an optional field: nothing when absent.
OptPart(opt, part) == IF opt = None THEN <<>> ELSE <<part>>

FmtResolution(res) == res[1] \o <<"x">> \o res[2]

\* impl fmt::Display for MediaTrack
DisplayMedia(m) ==
  LET parts ==
        OptPart(m.track_type, Bare(K_TYPE, m.track_type[1]))
        \o OptPart(m.group_id, Quoted(K_GROUP_ID, m.group_id[1]))
        \o OptPart(m.name, Quoted(K_NAME, m.name[1]))
        \o OptPart(m.language, Quoted(K_LANGUAGE, m.language[1]))
        \o OptPart(m.default, Bare(K_DEFAULT, m.default[1]))
        \o OptPart(m.autoselect, Bare(K_AUTOSELECT, m.autoselect[1]))
        \o OptPart(m.channels, Quoted(K_CHANNELS, m.channels[1]))
        \o OptPart(m.uri, Quoted(K_URI, m.uri[1]))
  IN TagMedia \o Join(parts, <<",">>)

\* impl fmt::Display for StreamVariant
DisplayStream(v) ==
  LET parts ==
        <<Bare(K_BANDWIDTH, v.bandwidth)>>
        \o OptPart(v.average_bandwidth,
                   Bare(K_AVERAGE_BANDWIDTH, v.average_bandwidth[1]))
        \o OptPart(v.codecs, Quoted(K_CODECS, v.codecs[1]))
        \o OptPart(v.resolution, Bare(K_RESOLUTION, FmtResolution(v.resolution[1])))
        \o OptPart(v.frame_rate, Bare(K_FRAME_RATE, FmtF32(v.frame_rate[1])))
        \o OptPart(v.video_range, Bare(K_VIDEO_RANGE, v.video_range[1]))
        \o OptPart(v.audio, Quoted(K_AUDIO, v.audio[1]))
        \o OptPart(v.closed_captions, Bare(K_CLOSED_CAPTIONS, v.closed_captions[1]))
  IN TagStream \o Join(parts, <<",">>) \o <<LF>> \o v.uri

\* impl fmt::Display for IFrameStream
DisplayIFrame(f) ==
  LET parts ==
        <<Bare(K_BANDWIDTH, f.bandwidth)>>
        \o OptPart(f.codecs, Quoted(K_CODECS, f.codecs[1]))
        \o OptPart(f.resolution, Bare(K_RESOLUTION, FmtResolution(f.resolution[1])))
        \o OptPart(f.video_range, Bare(K_VIDEO_RANGE, f.video_range[1]))
        \o <<Quoted(K_URI, f.uri)>>
  IN TagIFrame \o Join(parts, <<",">>)

\* for x in &collection { writeln!(w, "{}", x)?; }
RECURSIVE WriteLines(_)
WriteLines(lines) ==
  IF lines = <<>> THEN <<>> ELSE lines[1] \o <<LF>> \o WriteLines(Tail(lines))

\* MasterPlaylist::write_to
write_to(p) ==
  TagExtM3U \o <<LF>>
  \o (IF p.independent_segments THEN TagIndependentSegments \o <<LF>> ELSE <<>>)
  \o <<LF>>
  \o WriteLines([i \in 1..Len(p.media) |-> DisplayMedia(p.media[i])])
  \o <<LF>>
  \o WriteLines([i \in 1..Len(p.variants) |-> DisplayStream(p.variants[i])])
  \o <<LF>>
  \o WriteLines([i \in 1..Len(p.frames) |-> DisplayIFrame(p.frames[i])])

(***************************************************************************)
(* The document parser as a pure function                                  *)
(***************************************************************************)
EmptyPlaylist ==
  [independent_segments |-> FALSE, variants |-> <<>>, media |-> <<>>,
   frames |-> <<>>]

\* The branch the body loop takes on the remaining input.
Dispatch(input) ==
  IF StartsWith(input, PrefixIFrame) THEN "iframe"
  ELSE IF StartsWith(input, PrefixStream) THEN "stream"
  ELSE IF StartsWith(input, PrefixMedia) THEN "media"
  ELSE "skip"

\* The else branch: not_line_ending, then line_ending.
\* (SkipNothing: the same without consuming the line.)
SkipNothing(input) == Ok(input, <<>>)
SkipLine(input) == Bind(NotLineEnding(input), LAMBDA l : LineEnding(l.rest))

\* opt(parse_ext_x_independent_segments): [rest, val] with val the flag.
\* (OptDiscarded: the same with the flag left false.)
OptDiscarded(input, r) ==
  [rest |-> IF r.ok THEN r.rest ELSE input, val |-> FALSE]
OptResult(input, r) ==
  IF r.ok THEN [rest |-> r.rest, val |-> TRUE] ELSE [rest |-> input, val |-> FALSE]
OptIndependentSegments(input) ==
  OptResult(input, parse_ext_x_independent_segments(input))

\* The record parser (or the line skip) of branch d.
RunBranch(d, input) ==
  IF d = "iframe" THEN parse_iframe_stream(input)
  ELSE IF d = "stream" THEN parse_stream_variant(input)
  ELSE IF d = "media" THEN parse_media_track(input)
  ELSE SkipLine(input)

\* frames.push(frame) / variants.push(variant) / media.push(track)
Push(d, p, rec) ==
  IF d = "iframe" THEN [p EXCEPT !.frames = Append(@, rec)]
  ELSE IF d = "stream" THEN [p EXCEPT !.variants = Append(@, rec)]
  ELSE IF d = "media" THEN [p EXCEPT !.media = Append(@, rec)]
  ELSE p

\* One iteration of   while !input.is_empty() { .. }   on playlist p, on the
\* branch d the remaining input selects.
BodyStepOn(d, input, p) ==
  Bind(RunBranch(d, input), LAMBDA r : Ok(r.rest, Push(d, p, r.val)))
BodyStep(input, p) == BodyStepOn(Dispatch(input), input, p)

RECURSIVE BodyLoop(_, _)
BodyLoopNext(r) == IF ~r.ok THEN r ELSE BodyLoop(r.rest, r.val)
BodyLoop(input, p) ==
  IF input = <<>> THEN Ok(input, p) ELSE BodyLoopNext(BodyStep(input, p))

AfterHeader(o) ==
  BodyLoop(o.rest, [EmptyPlaylist EXCEPT !.independent_segments = o.val])

parse_master_playlist(input) ==
  Bind(parse_extm3u(input), LAMBDA h : AfterHeader(OptIndependentSegments(h.rest)))

\* map_err of parse_playlist: the PlaylistError built from a nom::Err.
MapErr(e) ==
  IF e.err = "Incomplete" THEN [kind |-> "Incomplete", code |-> "", input |-> <<>>]
  ELSE [kind |-> "ParseError", code |-> e.code, input |-> e.input]

\* parse_playlist: [ok, val] on success, [ok, error] on failure.
PlaylistResult(r) ==
  IF r.ok THEN [ok |-> TRUE, val |-> r.val]
  ELSE [ok |-> FALSE, error |-> MapErr(r)]
parse_playlist(input) == PlaylistResult(parse_master_playlist(input))

(***************************************************************************)
(* Sort engine (src/sort.rs)                                               *)
(***************************************************************************)
\* The enumerations, in declaration order.
SortStreamBy ==
  <<"Bandwidth", "AverageBandwidth", "Codecs", "Resolution", "FrameRate",
    "VideoRange", "Audio", "ClosedCaptions", "Uri">>
SortMediaBy ==
  <<"Type", "GroupId", "Name", "Language", "Default", "AutoSelect", "Channels",
    "Uri">>
SortIFrameBy == <<"Bandwidth", "Codecs", "Resolution", "VideoRange", "Uri">>

Range(f) == {f[i] : i \in DOMAIN f}

\* #[default]
DefaultSortStreamBy == "Bandwidth"
DefaultSortMediaBy == "GroupId"
DefaultSortIFrameBy == "Bandwidth"

\* <Option<T> as Ord>::cmp when one side is None: None is smaller than every
\* Some; "Both" when both sides are Some.
\* (CmpNoneLast: the same with None greater than every Some.)
CmpNoneLast(a, b) ==
  IF a = None THEN (IF b = None THEN Equal ELSE Greater)
  ELSE IF b = None THEN Less
  ELSE "Both"
CmpNone(a, b) ==
  IF a = None THEN (IF b = None THEN Equal ELSE Less)
  ELSE IF b = None THEN Greater
  ELSE "Both"

\* <(u32, u32) as Ord>::cmp: width first, then height.
CmpPair(a, b) ==
  IF CmpU32(a[1], b[1]) # Equal THEN CmpU32(a[1], b[1]) ELSE CmpU32(a[2], b[2])

\* T::cmp (partial_cmp for f32) of the field type T.
CmpAs(T, x, y) ==
  CASE T = "u32" -> CmpU32(x, y)
    [] T = "String" -> CmpStr(x, y)
    [] T = "(u32, u32)" -> CmpPair(x, y)
    [] T = "f32" -> PartialCmpF32(x, y)

\* <Option<T> as Ord>::cmp (partial_cmp for Option<f32>)
CmpOption(a, b, T) ==
  IF CmpNone(a, b) = "Both" THEN CmpAs(T, a[1], b[1]) ELSE CmpNone(a, b)

\* a.frame_rate.partial_cmp(&b.frame_rate).unwrap_or(Ordering::Equal)
UnwrapOrEqual(o) == IF o = "None" THEN Equal ELSE o
CmpFrameRate(a, b) == UnwrapOrEqual(CmpOption(a, b, "f32"))

compare_stream(a, b, sort_by) ==
  CASE sort_by = "Bandwidth" -> CmpU32(a.bandwidth, b.bandwidth)
    [] sort_by = "AverageBandwidth" ->
         CmpOption(a.average_bandwidth, b.average_bandwidth, "u32")
    [] sort_by = "Resolution" -> CmpOption(a.resolution, b.resolution, "(u32, u32)")
    [] sort_by = "Uri" -> CmpStr(a.uri, b.uri)
    [] sort_by = "Codecs" -> CmpOption(a.codecs, b.codecs, "String")
    [] sort_by = "VideoRange" -> CmpOption(a.video_range, b.video_range, "String")
    [] sort_by = "Audio" -> CmpOption(a.audio, b.audio, "String")
    [] sort_by = "ClosedCaptions" ->
         CmpOption(a.closed_captions, b.closed_captions, "String")
    [] sort_by = "FrameRate" -> CmpFrameRate(a.frame_rate, b.frame_rate)

compare_media(a, b, sort_by) ==
  CASE sort_by = "Type" -> CmpOption(a.track_type, b.track_type, "String")
    [] sort_by = "GroupId" -> CmpOption(a.group_id, b.group_id, "String")
    [] sort_by = "Name" -> CmpOption(a.name, b.name, "String")
    [] sort_by = "Language" -> CmpOption(a.language, b.language, "String")
    [] sort_by = "Default" -> CmpOption(a.default, b.default, "String")
    [] sort_by = "AutoSelect" -> CmpOption(a.autoselect, b.autoselect, "String")
    [] sort_by = "Channels" -> CmpOption(a.channels, b.channels, "String")
    [] sort_by = "Uri" -> CmpOption(a.uri, b.uri, "String")

compare_iframe(a, b, sort_by) ==
  CASE sort_by = "Bandwidth" -> CmpU32(a.bandwidth, b.bandwidth)
    [] sort_by = "Resolution" -> CmpOption(a.resolution, b.resolution, "(u32, u32)")
    [] sort_by = "Uri" -> CmpStr(a.uri, b.uri)
    [] sort_by = "Codecs" -> CmpOption(a.codecs, b.codecs, "String")
    [] sort_by = "VideoRange" -> CmpOption(a.video_range, b.video_range, "String")

\* if primary_cmp == Ordering::Equal { secondary } else { primary_cmp }
\* (PrimaryOnly: the same without the secondary key.)
PrimaryOnly(primary_cmp, secondary_cmp) == primary_cmp
ThenCompare(primary_cmp, secondary_cmp) ==
  IF primary_cmp = Equal THEN secondary_cmp ELSE primary_cmp

\* The closures given to sort_by.
StreamClosure(a, b, sort_by) ==
  ThenCompare(compare_stream(a, b, sort_by[1]), compare_stream(a, b, sort_by[2]))
MediaClosure(a, b, sort_by) ==
  ThenCompare(compare_media(a, b, sort_by[1]), compare_media(a, b, sort_by[2]))
IFrameClosure(a, b, sort_by) ==
  ThenCompare(compare_iframe(a, b, sort_by[1]), compare_iframe(a, b, sort_by[2]))

\* slice::sort_by on a slice of at most 20 elements is an insertion sort; the
\* standard library has shipped two of them.  "tail" inserts each element
\* into the sorted prefix on its left (insertion_sort_shift_left), "head"
\* inserts each element into the sorted suffix on its right (insert_head).
StdSorts == {"tail", "head"}

\* The closure of sort_stream ("stream"), sort_media ("media") or sort_iframe
\* ("iframe"), applied to a and b.
Closure(kind, sort_by, a, b) ==
  IF kind = "stream" THEN StreamClosure(a, b, sort_by)
  ELSE IF kind = "media" THEN MediaClosure(a, b, sort_by)
  ELSE IFrameClosure(a, b, sort_by)

\* Where x goes in the sorted prefix: after the last element it is not less than.
\* (TailPosBeforeEqual: after the last element it is greater than.)
TailPosBeforeEqual(sorted, x, kind, sort_by) ==
  LET K == {j \in 1..Len(sorted) : Closure(kind, sort_by, x, sorted[j]) = Greater}
  IN IF K = {} THEN 0 ELSE CHOOSE j \in K : \A k \in K : j >= k
TailPos(sorted, x, kind, sort_by) ==
  LET K == {j \in 1..Len(sorted) : Closure(kind, sort_by, x, sorted[j]) # Less}
  IN IF K = {} THEN 0 ELSE CHOOSE j \in K : \A k \in K : j >= k

\* Where x goes in the sorted suffix: before the first element not less than it.
HeadPos(sorted, x, kind, sort_by) ==
  LET K == {j \in 1..Len(sorted) : Closure(kind, sort_by, sorted[j], x) # Less}
  IN IF K = {} THEN Len(sorted) ELSE (CHOOSE j \in K : \A k \in K : j <= k) - 1

\* x put between the first n elements of sorted and the rest.
\* (InsertOver: x put over the element after the first n.)
InsertOver(sorted, x, n) == Take(sorted, n) \o <<x>> \o Drop(sorted, n + 1)
InsertAt(sorted, x, n) == Take(sorted, n) \o <<x>> \o Drop(sorted, n)
InsertTail(sorted, x, kind, sort_by) ==
  InsertAt(sorted, x, TailPos(sorted, x, kind, sort_by))
InsertHead(sorted, x, kind, sort_by) ==
  InsertAt(sorted, x, HeadPos(sorted, x, kind, sort_by))

\* The first n elements of v, sorted.
RECURSIVE SortTail(_, _, _, _)
SortTail(v, n, kind, sort_by) ==
  IF n = 0 THEN <<>>
  ELSE InsertTail(SortTail(v, n - 1, kind, sort_by), v[n], kind, sort_by)

\* The elements of v from the n-th on, sorted.
RECURSIVE SortHead(_, _, _, _)
SortHead(v, n, kind, sort_by) ==
  IF n > Len(v) THEN <<>>
  ELSE InsertHead(SortHead(v, n + 1, kind, sort_by), v[n], kind, sort_by)

\* v.sort_by(closure), as the standard library std sorts it.
SortBy(v, std, kind, sort_by) ==
  IF std = "tail" THEN SortTail(v, Len(v), kind, sort_by)
  ELSE SortHead(v, 1, kind, sort_by)

\* MasterPlaylist::sort_stream / sort_media / sort_iframe
sort_stream(p, sort_by, std) ==
  [p EXCEPT !.variants = SortBy(p.variants, std, "stream", sort_by)]
sort_media(p, sort_by, std) ==
  [p EXCEPT !.media = SortBy(p.media, std, "media", sort_by)]
sort_iframe(p, sort_by, std) ==
  [p EXCEPT !.frames = SortBy(p.frames, std, "iframe", sort_by)]

\* sort_order.first() / sort_order.get(1), .cloned().unwrap_or_default()
\* (FirstOrDefault: the same with first() in both places.)
FirstOrDefault(sort_order, i, default) ==
  IF Len(sort_order) >= 1 THEN sort_order[1] ELSE default
GetOrDefault(sort_order, i, default) ==
  IF Len(sort_order) >= i THEN sort_order[i] ELSE default

get_sort_order(sort_order, default) ==
  <<GetOrDefault(sort_order, 1, default), GetOrDefault(sort_order, 2, default)>>

(***************************************************************************)
(* Input documents                                                         *)
(***************************************************************************)
\* Longest body, in items, of a generated document.
MaxLines == 3

\* KEY=raw, and a raw value in double quotes
KV(key, raw) == key \o <<"=">> \o raw
Q(v) == <<QUOTE>> \o v \o <<QUOTE>>
TagLine(tagText, attrs) == tagText \o Join(attrs, <<",">>)

LMediaCanon ==
  TagLine(TagMedia, <<KV(K_TYPE, <<"A">>), KV(K_GROUP_ID, Q(<<"g">>)),
                      KV(K_URI, Q(<<"m">>))>>)
LMediaBare ==
  TagLine(TagMedia, <<KV(K_TYPE, <<"A">>), KV(K_AUTOSELECT, <<"Y", "E", "S">>)>>)
LMediaUnknown == TagLine(TagMedia, <<KV(<<"F", "O", "O">>, Q(<<"1">>))>>)
LStreamCanon ==
  TagLine(TagStream, <<KV(K_BANDWIDTH, <<"5", "0", "0">>),
                       KV(K_CODECS, Q(<<"c", ",", "d">>)),
                       KV(K_RESOLUTION, <<"1", "x", "2">>),
                       KV(K_FRAME_RATE, <<"2", "4">>)>>) \o <<LF, "v", "1">>
LStreamLoose ==
  TagLine(TagStream, <<KV(K_VIDEO_RANGE, Q(<<"P", ",", "Q">>)),
                       KV(K_BANDWIDTH, <<"0", "1", "0", "0">>),
                       KV(<<"X">>, <<"1">>)>>) \o <<LF, "v", "2">>
LStreamTag == TagLine(TagStream, <<KV(K_BANDWIDTH, <<"3", "0", "0">>)>>)
LIFrameCanon ==
  TagLine(TagIFrame, <<KV(K_BANDWIDTH, <<"7">>), KV(K_URI, Q(<<"i">>))>>)
LIFrameNoUri == TagLine(TagIFrame, <<KV(K_BANDWIDTH, <<"7">>)>>)
LUnknownTag == <<"#", "E", "X", "T", "-", "X", "-", "V", "E", "R", "S", "I", "O", "N", ":", "3">>
LMediaLike == PrefixMedia \o <<"-", "X", ":", "1">>
LBlank == <<>>

BodyItems ==
  {LMediaCanon, LMediaBare, LMediaUnknown, LStreamCanon, LStreamLoose,
   LStreamTag, LIFrameCanon, LIFrameNoUri, LUnknownTag, LMediaLike, LBlank,
   TagIndependentSegments}

\* Sequences over S of length at most n.
SeqUpTo(S, n) == UNION {[1..k -> S] : k \in 0..n}

\* The items, each ended by a line feed; the last one only if terminated.
BodyText(items, terminated) ==
  LET all == WriteLines(items)
  IN IF terminated \/ all = <<>> THEN all ELSE Take(all, Len(all) - 1)

HeaderLF == TagExtM3U \o <<LF>>
HeaderCRLF == TagExtM3U \o <<CR, LF>>

\* Documents whose first line is the header, and documents where it is not.
HeadedDocs ==
  {HeaderLF \o BodyText(items, t) : items \in SeqUpTo(BodyItems, MaxLines),
                                    t \in BOOLEAN}
  \cup {HeaderCRLF \o BodyText(<<LStreamCanon>>, TRUE)}
UnheadedDocs ==
  {pre \o BodyText(<<LStreamCanon, LMediaCanon>>, TRUE) :
     pre \in {<<>>, <<LF>>, <<" ">> \o HeaderLF, TagExtM3U, TagExtM3U \o <<"X", LF>>,
              TagExtM3U \o <<CR>>, <<"#", "E", "X", "T", LF>>}}
Docs == HeadedDocs \cup UnheadedDocs

(***************************************************************************)
(* Input tag blocks and documents in the layout of write_to                *)
(***************************************************************************)
\* Longest attribute list of a generated tag block, and longest section of a
\* generated document.
MaxAttrs == 3
MaxSection == 2

\* An attribute as written: its key and the raw text after the '='.
Attr(key, raw) == [key |-> key, raw |-> raw]
AttrsText(attrs) ==
  Join([i \in DOMAIN attrs |-> KV(attrs[i].key, attrs[i].raw)], <<",">>)
MediaLine(attrs) == TagMedia \o AttrsText(attrs)
StreamLines(v) == TagStream \o AttrsText(v.attrs) \o <<LF>> \o v.uri
IFrameLine(attrs) == TagIFrame \o AttrsText(attrs)

MediaAttrs ==
  {Attr(K_TYPE, <<"A">>), Attr(K_GROUP_ID, Q(<<"g">>)),
   Attr(K_NAME, Q(<<"a", ",", "b">>)), Attr(K_AUTOSELECT, <<"Y", "E", "S">>),
   Attr(K_URI, Q(<<"m">>)),
   Attr(K_TYPE, Q(<<"A">>)), Attr(K_GROUP_ID, <<"g">>),
   Attr(K_DEFAULT, <<" ", "N", "O">>), Attr(<<"F", "O", "O">>, <<"1">>)}
StreamAttrs ==
  {Attr(K_BANDWIDTH, <<"5", "0", "0">>), Attr(K_CODECS, Q(<<"c", ",", "d">>)),
   Attr(K_RESOLUTION, <<"1", "x", "2">>),
   Attr(K_FRAME_RATE, <<"2", "3", ".", "9", "7">>), Attr(K_AUDIO, Q(<<"g">>)),
   Attr(K_BANDWIDTH, <<"0", "5">>), Attr(K_FRAME_RATE, <<"2", "4", ".", "0">>),
   Attr(K_RESOLUTION, <<"1", "x">>), Attr(<<"X">>, <<"1">>)}
IFrameAttrs ==
  {Attr(K_BANDWIDTH, <<"7">>), Attr(K_CODECS, Q(<<"c">>)),
   Attr(K_RESOLUTION, <<"1", "x", "2">>), Attr(K_VIDEO_RANGE, <<"P", "Q">>),
   Attr(K_URI, Q(<<"i">>)),
   Attr(K_URI, <<"i">>), Attr(<<"X">>, <<"1">>)}
UriLines == {<<"v">>, <<>>}

\* What a text was generated from: one tag block of a record type (kind
\* "media", "stream", "iframe"), a document in the layout of write_to (kind
\* "document"), or a document given as text (kind "text").
SourceOf(kind, flag, media, variants, frames, eol, raw) ==
  [kind |-> kind, independent_segments |-> flag, media |-> media,
   variants |-> variants, frames |-> frames, eol |-> eol, raw |-> raw]
TextSource(raw) == SourceOf("text", FALSE, <<>>, <<>>, <<>>, TRUE, raw)
NoSource == TextSource(<<>>)

MediaBlocks ==
  {SourceOf("media", FALSE, <<a>>, <<>>, <<>>, eol, <<>>) :
     a \in SeqUpTo(MediaAttrs, MaxAttrs), eol \in BOOLEAN}
StreamBlocks ==
  {SourceOf("stream", FALSE, <<>>, <<[attrs |-> a, uri |-> u]>>, <<>>, eol, <<>>) :
     a \in SeqUpTo(StreamAttrs, MaxAttrs), u \in UriLines, eol \in BOOLEAN}
IFrameBlocks ==
  {SourceOf("iframe", FALSE, <<>>, <<>>, <<a>>, eol, <<>>) :
     a \in SeqUpTo(IFrameAttrs, MaxAttrs), eol \in BOOLEAN}

DocMedia ==
  {<<Attr(K_TYPE, <<"A">>), Attr(K_GROUP_ID, Q(<<"g">>)), Attr(K_URI, Q(<<"m">>))>>,
   <<Attr(K_TYPE, <<"A">>), Attr(K_AUTOSELECT, <<"Y", "E", "S">>)>>}
DocVariants ==
  {[attrs |-> <<Attr(K_BANDWIDTH, <<"5", "0", "0">>),
                Attr(K_CODECS, Q(<<"c", ",", "d">>))>>, uri |-> <<"v">>],
   [attrs |-> <<Attr(K_BANDWIDTH, <<"3", "0", "0">>)>>, uri |-> <<>>]}
DocFrames == {<<Attr(K_BANDWIDTH, <<"7">>), Attr(K_URI, Q(<<"i">>))>>}
LayoutDocs ==
  {SourceOf("document", flag, m, v, f, eol, <<>>) :
     flag \in BOOLEAN, m \in SeqUpTo(DocMedia, MaxSection),
     v \in SeqUpTo(DocVariants, MaxSection), f \in SeqUpTo(DocFrames, MaxSection),
     eol \in BOOLEAN}

\* The text of a source; without its last line feed when eol is FALSE.
Layout(src) ==
  TagExtM3U \o <<LF>>
  \o (IF src.independent_segments THEN TagIndependentSegments \o <<LF>> ELSE <<>>)
  \o <<LF>>
  \o WriteLines([i \in DOMAIN src.media |-> MediaLine(src.media[i])])
  \o <<LF>>
  \o WriteLines([i \in DOMAIN src.variants |-> StreamLines(src.variants[i])])
  \o <<LF>>
  \o WriteLines([i \in DOMAIN src.frames |-> IFrameLine(src.frames[i])])
Ended(t, eol) == IF eol THEN t ELSE Take(t, Len(t) - 1)
Render(src) ==
  CASE src.kind = "text" -> src.raw
    [] src.kind = "media" -> Ended(MediaLine(src.media[1]) \o <<LF>>, src.eol)
    [] src.kind = "stream" -> Ended(StreamLines(src.variants[1]) \o <<LF>>, src.eol)
    [] src.kind = "iframe" -> Ended(IFrameLine(src.frames[1]) \o <<LF>>, src.eol)
    [] src.kind = "document" -> Ended(Layout(src), src.eol)

(***************************************************************************)
(* State                                                                   *)
(***************************************************************************)
VARIABLES
  source,     \* what the first text was generated from
  text,       \* the document given to parse_playlist in the current pass
  input,      \* the remaining input of parse_master_playlist
  pc,         \* position of the pipeline
  pass,       \* 1 while the source is parsed, 2 while its output is re-parsed
  playlist,   \* the MasterPlaylist (under construction, then sorted)
  error,      \* the PlaylistError of a failed parse, None before
  outputs,    \* what write_to / Display wrote, one text per pass
  sort_by,    \* the (primary, secondary) pairs given to the three sorts
  last,       \* the sort called last, "none" before the first
  before,     \* the playlist as it was when the last sort was called
  selected,   \* get_sort_order's argument: [enum, fields]
  order       \* the pair get_sort_order returned, None before

vars ==
  <<source, text, input, pc, pass, playlist, error, outputs, sort_by, last,
    before, selected, order>>

DefaultPairs ==
  [stream |-> <<DefaultSortStreamBy, DefaultSortStreamBy>>,
   media |-> <<DefaultSortMediaBy, DefaultSortMediaBy>>,
   iframe |-> <<DefaultSortIFrameBy, DefaultSortIFrameBy>>]
NoSelection == [enum |-> "stream", fields |-> <<>>]

(***************************************************************************)
(* Spec: parse_playlist step by step, write_to, and a second pass over the *)
(* written text.                                                           *)
(***************************************************************************)
sortVars == <<sort_by, last, before, selected, order>>
parseVars == <<source, text, input, pc, pass, error, outputs>>

Started ==
  /\ text = Render(source)
  /\ input = text
  /\ pc = IF source.kind \in {"text", "document"} THEN "BEFORE_HEADER" ELSE "BLOCK"
  /\ pass = 1
  /\ playlist = EmptyPlaylist
  /\ error = None
  /\ outputs = <<>>
  /\ sort_by = DefaultPairs
  /\ last = "none"
  /\ before = EmptyPlaylist
  /\ selected = NoSelection
  /\ order = None

Init ==
  /\ source \in {TextSource(d) : d \in Docs}
  /\ Started

\* A failing sub-parser aborts the parse (the ? operator, then map_err).
Fail(r) ==
  /\ pc' = "FAILED"
  /\ error' = Some(MapErr(r))
  /\ UNCHANGED <<text, input, pass, playlist, outputs>>

\* let (input, _) = parse_extm3u(input)?;
HeaderParsed(r) ==
  IF r.ok
    THEN /\ input' = r.rest
         /\ pc' = "AFTER_HEADER"
         /\ UNCHANGED <<text, pass, playlist, error, outputs>>
    ELSE Fail(r)
ParseHeader ==
  /\ pc = "BEFORE_HEADER"
  /\ HeaderParsed(parse_extm3u(input))
  /\ UNCHANGED <<source, sortVars>>

\* match opt(parse_ext_x_independent_segments)(input)? { .. }
FlagParsed(o) ==
  /\ input' = o.rest
  /\ playlist' = [playlist EXCEPT !.independent_segments = o.val]
ParseIndependentSegments ==
  /\ pc = "AFTER_HEADER"
  /\ FlagParsed(OptIndependentSegments(input))
  /\ pc' = "IN_BODY"
  /\ UNCHANGED <<text, pass, error, outputs>>
  /\ UNCHANGED <<source, sortVars>>

\* One iteration of the body loop; one action per branch of the if chain.
Iterated(r) ==
  IF r.ok
    THEN /\ input' = r.rest
         /\ playlist' = r.val
         /\ UNCHANGED <<text, pc, pass, error, outputs>>
    ELSE Fail(r)
ParseIFrame ==
  /\ pc = "IN_BODY"
  /\ input # <<>>
  /\ Dispatch(input) = "iframe"
  /\ Iterated(BodyStep(input, playlist))
  /\ UNCHANGED <<source, sortVars>>

ParseStream ==
  /\ pc = "IN_BODY"
  /\ input # <<>>
  /\ Dispatch(input) = "stream"
  /\ Iterated(BodyStep(input, playlist))
  /\ UNCHANGED <<source, sortVars>>

ParseMedia ==
  /\ pc = "IN_BODY"
  /\ input # <<>>
  /\ Dispatch(input) = "media"
  /\ Iterated(BodyStep(input, playlist))
  /\ UNCHANGED <<source, sortVars>>

Skip ==
  /\ pc = "IN_BODY"
  /\ input # <<>>
  /\ Dispatch(input) = "skip"
  /\ Iterated(BodyStep(input, playlist))
  /\ UNCHANGED <<source, sortVars>>

\* The loop ends on empty input: Ok((input, MasterPlaylist { .. }))
Return ==
  /\ pc = "IN_BODY"
  /\ input = <<>>
  /\ pc' = "DONE"
  /\ UNCHANGED <<text, input, pass, playlist, error, outputs>>
  /\ UNCHANGED <<source, sortVars>>

\* playlist.write_to(&mut w)
WriteTo ==
  /\ pc = "DONE"
  /\ outputs' = Append(outputs, write_to(playlist))
  /\ pc' = "WRITTEN"
  /\ UNCHANGED <<text, input, pass, playlist, error>>
  /\ UNCHANGED <<source, sortVars>>

\* The written text is parsed again.
Reparse ==
  /\ pc = "WRITTEN"
  /\ pass = 1
  /\ text' = outputs[1]
  /\ input' = outputs[1]
  /\ pass' = 2
  /\ pc' = "BEFORE_HEADER"
  /\ playlist' = EmptyPlaylist
  /\ UNCHANGED <<error, outputs>>
  /\ UNCHANGED <<source, sortVars>>

Next ==
  \/ ParseHeader
  \/ ParseIndependentSegments
  \/ ParseIFrame
  \/ ParseStream
  \/ ParseMedia
  \/ Skip
  \/ Return
  \/ WriteTo
  \/ Reparse

Spec == Init /\ [][Next]_vars

(***************************************************************************)
(* SpecLive: the same steps on shorter documents.  The program is          *)
(* sequential: a step that can be taken is taken.                          *)
(***************************************************************************)
\* Longest body, in items, of a document of SpecLive.
MaxLiveLines == 2

LiveDocs ==
  {HeaderLF \o BodyText(items, t) : items \in SeqUpTo(BodyItems, MaxLiveLines),
                                    t \in BOOLEAN}
  \cup UnheadedDocs

InitLive ==
  /\ source \in {TextSource(d) : d \in LiveDocs}
  /\ Started

SpecLive == InitLive /\ [][Next]_vars /\ WF_vars(Next)

(***************************************************************************)
(* SpecRoundTrip: a tag block through its record parser and Display, and a *)
(* document in the layout of write_to through parse_playlist and write_to. *)
(***************************************************************************)
InitRoundTrip ==
  /\ source \in MediaBlocks \cup StreamBlocks \cup IFrameBlocks \cup LayoutDocs
  /\ Started

\* let (_, parsed_object) = parser(input).unwrap(); format!("{}", parsed_object)
Displayed(r, kind, shown) ==
  IF r.ok
    THEN /\ input' = r.rest
         /\ playlist' = Push(kind, EmptyPlaylist, r.val)
         /\ outputs' = <<shown>>
         /\ pc' = "DISPLAYED"
         /\ UNCHANGED <<text, pass, error>>
    ELSE Fail(r)
ShowMedia(r) == Displayed(r, "media", IF r.ok THEN DisplayMedia(r.val) ELSE <<>>)
ShowStream(r) == Displayed(r, "stream", IF r.ok THEN DisplayStream(r.val) ELSE <<>>)
ShowIFrame(r) == Displayed(r, "iframe", IF r.ok THEN DisplayIFrame(r.val) ELSE <<>>)

\* round_trip_test(input, parse_media_track)
RoundTripMedia ==
  /\ pc = "BLOCK"
  /\ source.kind = "media"
  /\ ShowMedia(parse_media_track(text))
  /\ UNCHANGED <<source, sortVars>>

\* round_trip_test(input, parse_stream_variant)
RoundTripStream ==
  /\ pc = "BLOCK"
  /\ source.kind = "stream"
  /\ ShowStream(parse_stream_variant(text))
  /\ UNCHANGED <<source, sortVars>>

\* round_trip_test(input, parse_iframe_stream)
RoundTripIFrame ==
  /\ pc = "BLOCK"
  /\ source.kind = "iframe"
  /\ ShowIFrame(parse_iframe_stream(text))
  /\ UNCHANGED <<source, sortVars>>

NextRoundTrip ==
  \/ RoundTripMedia
  \/ RoundTripStream
  \/ RoundTripIFrame
  \/ ParseHeader
  \/ ParseIndependentSegments
  \/ ParseIFrame
  \/ ParseStream
  \/ ParseMedia
  \/ Skip
  \/ Return
  \/ WriteTo

SpecRoundTrip == InitRoundTrip /\ [][NextRoundTrip]_vars

(***************************************************************************)
(* SpecLenient: stream and I-frame tag blocks whose numeric attributes are *)
(* well formed or not, through their record parsers.                       *)
(***************************************************************************)
U32Texts ==
  {<<"7">>, <<"x", "7">>, <<"-", "1">>,
   <<"4", "2", "9", "4", "9", "6", "7", "2", "9", "5">>,
   <<"4", "2", "9", "4", "9", "6", "7", "2", "9", "6">>}
ResolutionTexts ==
  {<<"1", "x", "2">>, <<"1", "x", "2", "a">>, <<"1", "2">>,
   <<"1", "x", "2", "x", "3">>}

LenientStreamAttrs ==
  {Attr(K_BANDWIDTH, t) : t \in U32Texts}
  \cup {Attr(K_AVERAGE_BANDWIDTH, <<"7">>), Attr(K_AVERAGE_BANDWIDTH, <<"7", ".", "5">>)}
  \cup {Attr(K_RESOLUTION, t) : t \in ResolutionTexts}
  \cup {Attr(K_CODECS, Q(<<"c">>))}
LenientIFrameAttrs ==
  {Attr(K_BANDWIDTH, t) : t \in U32Texts}
  \cup {Attr(K_RESOLUTION, t) : t \in ResolutionTexts}
  \cup {Attr(K_URI, Q(<<"i">>))}

LenientBlocks ==
  {SourceOf("stream", FALSE, <<>>, <<[attrs |-> a, uri |-> <<"v">>]>>, <<>>, TRUE, <<>>) :
     a \in SeqUpTo(LenientStreamAttrs, MaxAttrs)}
  \cup {SourceOf("iframe", FALSE, <<>>, <<>>, <<a>>, TRUE, <<>>) :
          a \in SeqUpTo(LenientIFrameAttrs, MaxAttrs)}

InitLenient ==
  /\ source \in LenientBlocks
  /\ Started

NextLenient ==
  \/ RoundTripStream
  \/ RoundTripIFrame

SpecLenient == InitLenient /\ [][NextLenient]_vars

(***************************************************************************)
(* SpecSort: the three sorts, called in any order on a parsed playlist.    *)
(***************************************************************************)
\* Longest collection of a generated playlist.
MaxRecords == 3

VA ==
  [DefaultStreamVariant EXCEPT !.bandwidth = <<"5", "0", "0">>, !.uri = <<"a">>]
VB ==
  [bandwidth |-> <<"1", "0", "0">>, average_bandwidth |-> Some(<<"9", "0">>),
   codecs |-> Some(<<"c">>), resolution |-> Some(<<<<"1">>, <<"2">>>>),
   frame_rate |-> Some(F32(<<"2", "4">>, <<>>)), video_range |-> Some(<<"P">>),
   audio |-> Some(<<"g">>), closed_captions |-> Some(<<"N">>), uri |-> <<"b">>]
VC ==
  [VB EXCEPT !.bandwidth = <<"3", "0", "0">>, !.frame_rate = Some(NaN),
             !.audio = None, !.closed_captions = None, !.uri = <<"c">>]
VD ==
  [bandwidth |-> <<"1", "0", "0">>,
   average_bandwidth |-> Some(<<"1", "0", "0", "0">>),
   codecs |-> Some(<<"c", "d">>), resolution |-> Some(<<<<"1">>, <<"1", "0">>>>),
   frame_rate |-> Some(F32(<<"2", "3">>, <<"9", "7">>)),
   video_range |-> Some(<<"Q">>), audio |-> Some(<<"G">>),
   closed_captions |-> Some(<<"N">>), uri |-> <<"b">>]
StreamPool == {VA, VB, VC, VD}

MA == DefaultMediaTrack
MB ==
  [track_type |-> Some(<<"A">>), group_id |-> Some(<<"g">>),
   name |-> Some(<<"n">>), language |-> Some(<<"e", "n">>),
   default |-> Some(<<"Y", "E", "S">>), autoselect |-> Some(<<"Y", "E", "S">>),
   channels |-> Some(<<"2">>), uri |-> Some(<<"m">>)]
MC ==
  [MB EXCEPT !.group_id = Some(<<"G">>), !.language = None,
             !.channels = Some(<<"1", "0">>), !.default = Some(<<"N", "O">>),
             !.uri = None]
MediaPool == {MA, MB, MC}

FA == [DefaultIFrameStream EXCEPT !.bandwidth = <<"7">>]
FB ==
  [bandwidth |-> <<"1", "0">>, codecs |-> Some(<<"c">>),
   resolution |-> Some(<<<<"2">>, <<"1">>>>), video_range |-> Some(<<"P">>),
   uri |-> <<"i">>]
FC == [FB EXCEPT !.bandwidth = <<"7">>, !.resolution = Some(<<<<"1", "0">>, <<"1">>>>),
                 !.video_range = None, !.uri = <<"j">>]
FramePool == {FA, FB, FC}

Pairs(enum) == Range(enum) \X Range(enum)

\* One collection is drawn freely together with its key pair; of the other
\* two, sorted by their default pairs, one is an unsorted list.
InitSort ==
  /\ \/ /\ playlist \in {[independent_segments |-> TRUE, variants |-> v,
                          media |-> <<MB, MA>>, frames |-> <<FA>>] :
                           v \in SeqUpTo(StreamPool, MaxRecords)}
        /\ sort_by \in {[DefaultPairs EXCEPT !.stream = k] : k \in Pairs(SortStreamBy)}
     \/ /\ playlist \in {[independent_segments |-> FALSE, variants |-> <<VA>>,
                          media |-> m, frames |-> <<FB, FA>>] :
                           m \in SeqUpTo(MediaPool, MaxRecords)}
        /\ sort_by \in {[DefaultPairs EXCEPT !.media = k] : k \in Pairs(SortMediaBy)}
     \/ /\ playlist \in {[independent_segments |-> FALSE, variants |-> <<VA, VB>>,
                          media |-> <<MA>>, frames |-> f] :
                           f \in SeqUpTo(FramePool, MaxRecords)}
        /\ sort_by \in {[DefaultPairs EXCEPT !.iframe = k] : k \in Pairs(SortIFrameBy)}
  /\ last = "none"
  /\ before = playlist
  /\ source = NoSource
  /\ text = <<>>
  /\ input = <<>>
  /\ pc = "DONE"
  /\ pass = 1
  /\ error = None
  /\ outputs = <<>>
  /\ selected = NoSelection
  /\ order = None

\* playlist.sort_stream(sort_by)
SortStream ==
  /\ \E std \in StdSorts : playlist' = sort_stream(playlist, sort_by.stream, std)
  /\ last' = "sort_stream"
  /\ before' = playlist
  /\ UNCHANGED <<sort_by, selected, order>>
  /\ UNCHANGED parseVars

\* playlist.sort_media(sort_by)
SortMedia ==
  /\ \E std \in StdSorts : playlist' = sort_media(playlist, sort_by.media, std)
  /\ last' = "sort_media"
  /\ before' = playlist
  /\ UNCHANGED <<sort_by, selected, order>>
  /\ UNCHANGED parseVars

\* playlist.sort_iframe(sort_by)
SortIFrame ==
  /\ \E std \in StdSorts : playlist' = sort_iframe(playlist, sort_by.iframe, std)
  /\ last' = "sort_iframe"
  /\ before' = playlist
  /\ UNCHANGED <<sort_by, selected, order>>
  /\ UNCHANGED parseVars

NextSort == SortStream \/ SortMedia \/ SortIFrame

SpecSort == InitSort /\ [][NextSort]_vars

(***************************************************************************)
(* SpecOrder: get_sort_order on a list of selected fields.                 *)
(***************************************************************************)
\* Longest list of selected fields.
MaxSelected == 3

EnumOf(name) ==
  IF name = "stream" THEN SortStreamBy
  ELSE IF name = "media" THEN SortMediaBy
  ELSE SortIFrameBy

\* <T as Default>::default()
DefaultOf(name) ==
  IF name = "stream" THEN DefaultSortStreamBy
  ELSE IF name = "media" THEN DefaultSortMediaBy
  ELSE DefaultSortIFrameBy

InitOrder ==
  /\ selected \in {[enum |-> e, fields |-> f] :
                     e \in {"stream"}, f \in SeqUpTo(Range(SortStreamBy), MaxSelected)}
               \cup {[enum |-> e, fields |-> f] :
                     e \in {"media"}, f \in SeqUpTo(Range(SortMediaBy), MaxSelected)}
               \cup {[enum |-> e, fields |-> f] :
                     e \in {"iframe"}, f \in SeqUpTo(Range(SortIFrameBy), MaxSelected)}
  /\ order = None
  /\ playlist = EmptyPlaylist
  /\ sort_by = DefaultPairs
  /\ last = "none"
  /\ before = EmptyPlaylist
  /\ source = NoSource
  /\ text = <<>>
  /\ input = <<>>
  /\ pc = "DONE"
  /\ pass = 1
  /\ error = None
  /\ outputs = <<>>

\* get_sort_order(&args.sort_.._by)
GetSortOrder ==
  /\ order = None
  /\ order' = Some(get_sort_order(selected.fields, DefaultOf(selected.enum)))
  /\ UNCHANGED <<playlist, sort_by, last, before, selected>>
  /\ UNCHANGED parseVars

NextOrder == GetSortOrder

SpecOrder == InitOrder /\ [][NextOrder]_vars

(***************************************************************************)
(* Properties of the sort engine                                           *)
(***************************************************************************)
\* The collection a sort works on, its kind, and the record field a key reads.
Kinds == {"stream", "media", "iframe"}
KindOf(op) ==
  IF op = "sort_stream" THEN "stream"
  ELSE IF op = "sort_media" THEN "media"
  ELSE "iframe"
Coll(p, kind) ==
  IF kind = "stream" THEN p.variants
  ELSE IF kind = "media" THEN p.media
  ELSE p.frames
Compare(kind, a, b, key) ==
  IF kind = "stream" THEN compare_stream(a, b, key)
  ELSE IF kind = "media" THEN compare_media(a, b, key)
  ELSE compare_iframe(a, b, key)
FieldOf(kind, key, r) ==
  CASE key = "Bandwidth" -> Some(r.bandwidth)
    [] key = "AverageBandwidth" -> r.average_bandwidth
    [] key = "Codecs" -> r.codecs
    [] key = "Resolution" -> r.resolution
    [] key = "FrameRate" -> r.frame_rate
    [] key = "VideoRange" -> r.video_range
    [] key = "Audio" -> r.audio
    [] key = "ClosedCaptions" -> r.closed_captions
    [] key = "Type" -> r.track_type
    [] key = "GroupId" -> r.group_id
    [] key = "Name" -> r.name
    [] key = "Language" -> r.language
    [] key = "Default" -> r.default
    [] key = "AutoSelect" -> r.autoselect
    [] key = "Channels" -> r.channels
    [] key = "Uri" -> IF kind = "media" THEN r.uri ELSE Some(r.uri)

\* The keys of the optional fields named by the absent-before-present rule.
OptionalKeys(kind) ==
  IF kind = "stream"
    THEN {"AverageBandwidth", "Codecs", "Resolution", "VideoRange", "Audio",
          "ClosedCaptions"}
  ELSE IF kind = "media" THEN Range(SortMediaBy)
  ELSE {"Codecs", "Resolution", "VideoRange"}

Sorted == last # "none"
SortedKind == KindOf(last)
KeyPair == sort_by[SortedKind]
Was == Coll(before, SortedKind)
Now == Coll(playlist, SortedKind)

EqualKeys(kind, keys, a, b) ==
  /\ Compare(kind, a, b, keys[1]) = Equal
  /\ Compare(kind, a, b, keys[2]) = Equal
Only(v, a, b) == SelectSeq(v, LAMBDA r : r \in {a, b})
Count(v, x) == Cardinality({i \in DOMAIN v : v[i] = x})
SameRecords(v, w) ==
  /\ Len(v) = Len(w)
  /\ \A x \in Range(v) \cup Range(w) : Count(v, x) = Count(w, x)
AllAbsent(kind, keys, v) ==
  \A i \in DOMAIN v :
    FieldOf(kind, keys[1], v[i]) = None /\ FieldOf(kind, keys[2], v[i]) = None

Bandwidths(v) == [i \in DOMAIN v |-> v[i].bandwidth]
C5_Frame ==
  Sorted =>
    /\ playlist.independent_segments = before.independent_segments
    /\ \A k \in Kinds \ {SortedKind} : Coll(playlist, k) = Coll(before, k)
    /\ SameRecords(Now, Was)

\* sort_media reordered the media while unsorted variants and frames stayed.
C5_Witness ==
  /\ last = "sort_media"
  /\ Now # Was
  /\ Len(Now) = 3
  /\ playlist.variants = <<VA>>
  /\ playlist.frames = <<FB, FA>>

\* C6 (absent before present): by every optional field but frame_rate, a
\* record lacking the field compares Less than a record having it, and after
\* a sort with that field as primary key no record having it stands before a
\* record lacking it.
C6_AbsentFirst ==
  /\ \A k \in Kinds : \A key \in OptionalKeys(k) :
       \A a \in Range(Coll(playlist, k)) : \A b \in Range(Coll(playlist, k)) :
         (FieldOf(k, key, a) = None /\ FieldOf(k, key, b) # None)
           => Compare(k, a, b, key) = Less
  /\ (Sorted /\ KeyPair[1] \in OptionalKeys(SortedKind)) =>
       \A i \in DOMAIN Now : \A j \in DOMAIN Now :
         (i < j /\ FieldOf(SortedKind, KeyPair[1], Now[j]) = None)
           => FieldOf(SortedKind, KeyPair[1], Now[i]) = None

\* Records lacking the primary field moved in front of one having it.
C6_Witness ==
  /\ last = "sort_iframe"
  /\ KeyPair[1] = "VideoRange"
  /\ Was = <<FB, FA, FC>>
  /\ Now = <<FA, FC, FB>>

(***************************************************************************)
(* Properties of get_sort_order                                            *)
(***************************************************************************)
Listed(i, default) ==
  IF Len(selected.fields) >= i THEN selected.fields[i] ELSE default
MarkedDefault ==
  IF selected.enum = "media" THEN "GroupId" ELSE "Bandwidth"
FirstDeclared == EnumOf(selected.enum)[1]

\* C7 (get_sort_order defaults): the primary key is the first listed field,
\* the secondary key the second listed field, and each missing one is the
\* variant the enumeration marks as its default: Bandwidth for SortStreamBy
\* and SortIFrameBy, GroupId for SortMediaBy; later fields have no effect.
C7_MarkedDefault ==
  order # None =>
    order[1] = <<Listed(1, MarkedDefault), Listed(2, MarkedDefault)>>

\* No media field listed: both keys are GroupId.
C7_Witness ==
  /\ selected = [enum |-> "media", fields |-> <<>>]
  /\ order = Some(<<"GroupId", "GroupId">>)

\* C7 as stated: each missing key is the first declared variant of the
\* enumeration.
C7_FirstDeclared ==
  order # None =>
    order[1] = <<Listed(1, FirstDeclared), Listed(2, FirstDeclared)>>


(***************************************************************************)
(* Properties of the round trip                                            *)
(***************************************************************************)
\* The attribute order of the three Display implementations, and the form in
\* which each writes a value.
EmissionOrder(kind) ==
  IF kind = "media"
    THEN <<K_TYPE, K_GROUP_ID, K_NAME, K_LANGUAGE, K_DEFAULT, K_AUTOSELECT,
           K_CHANNELS, K_URI>>
  ELSE IF kind = "stream"
    THEN <<K_BANDWIDTH, K_AVERAGE_BANDWIDTH, K_CODECS, K_RESOLUTION,
           K_FRAME_RATE, K_VIDEO_RANGE, K_AUDIO, K_CLOSED_CAPTIONS>>
  ELSE <<K_BANDWIDTH, K_CODECS, K_RESOLUTION, K_VIDEO_RANGE, K_URI>>
AlwaysEmitted(kind) ==
  IF kind = "media" THEN {}
  ELSE IF kind = "stream" THEN {K_BANDWIDTH}
  ELSE {K_BANDWIDTH, K_URI}
FormOf(key) ==
  IF key \in {K_BANDWIDTH, K_AVERAGE_BANDWIDTH} THEN "integer"
  ELSE IF key = K_RESOLUTION THEN "resolution"
  ELSE IF key = K_FRAME_RATE THEN "float"
  ELSE IF key \in {K_TYPE, K_DEFAULT, K_AUTOSELECT, K_VIDEO_RANGE, K_CLOSED_CAPTIONS}
    THEN "bare"
  ELSE "quoted"

\* Texts in the form the serializer writes them.
OneLine(t) == \A i \in DOMAIN t : t[i] \notin {LF, CR}
IsInteger(t) ==
  /\ t # <<>>
  /\ \A i \in DOMAIN t : t[i] \in Digits
  /\ Len(t) = 1 \/ t[1] # "0"
  /\ CmpU32(t, U32Max) # Greater
IsResolution(t) ==
  \E i \in DOMAIN t :
    /\ t[i] = "x"
    /\ IsInteger(SubSeq(t, 1, i - 1))
    /\ IsInteger(SubSeq(t, i + 1, Len(t)))
IsFloat(t) ==
  \/ t = NaNText
  \/ IsInteger(t) /\ Len(t) <= 6
  \/ \E i \in DOMAIN t :
       /\ t[i] = "."
       /\ IsInteger(SubSeq(t, 1, i - 1))
       /\ i < Len(t)
       /\ \A j \in (i + 1)..Len(t) : t[j] \in Digits
       /\ t[Len(t)] # "0"
       /\ Len(t) <= 7
IsBare(t) ==
  /\ t # <<>>
  /\ OneLine(t)
  /\ \A i \in DOMAIN t : t[i] # ","
  /\ t[1] # QUOTE
  /\ t[1] \notin WhiteSpace
  /\ t[Len(t)] \notin WhiteSpace
IsQuoted(t) ==
  /\ Len(t) >= 3
  /\ OneLine(t)
  /\ t[1] = QUOTE
  /\ t[Len(t)] = QUOTE
  /\ \A i \in 2..(Len(t) - 1) : t[i] # QUOTE
IsValue(form, t) ==
  CASE form = "integer" -> IsInteger(t)
    [] form = "resolution" -> IsResolution(t)
    [] form = "float" -> IsFloat(t)
    [] form = "bare" -> IsBare(t)
    [] form = "quoted" -> IsQuoted(t)

\* An attribute list as Display writes it: known keys in emission order, none
\* twice, the always emitted ones present, every value in its written form.
Rank(kind, key) ==
  CHOOSE i \in DOMAIN EmissionOrder(kind) : EmissionOrder(kind)[i] = key
CanonicalAttrs(kind, attrs) ==
  /\ attrs # <<>>
  /\ \A i \in DOMAIN attrs :
       /\ attrs[i].key \in Range(EmissionOrder(kind))
       /\ IsValue(FormOf(attrs[i].key), attrs[i].raw)
  /\ \A i \in DOMAIN attrs : \A j \in DOMAIN attrs :
       i < j => Rank(kind, attrs[i].key) < Rank(kind, attrs[j].key)
  /\ \A k \in AlwaysEmitted(kind) : \E i \in DOMAIN attrs : attrs[i].key = k
CanonicalSource(src) ==
  /\ \A i \in DOMAIN src.media : CanonicalAttrs("media", src.media[i])
  /\ \A i \in DOMAIN src.variants :
       CanonicalAttrs("stream", src.variants[i].attrs) /\ OneLine(src.variants[i].uri)
  /\ \A i \in DOMAIN src.frames : CanonicalAttrs("iframe", src.frames[i])
EndsQuoted(attrs) == attrs # <<>> /\ attrs[Len(attrs)].raw[Len(attrs[Len(attrs)].raw)] = QUOTE

\* Equal but for one line terminator at the end of either text.
SameButEol(a, b) ==
  \E e \in {<<>>, <<LF>>, <<CR, LF>>} : a = b \o e \/ b = a \o e

C2_Idempotent ==
  pass = 2 =>
    /\ pc # "FAILED"
    /\ pc = "WRITTEN" => outputs[2] = outputs[1]

\* The remaining input starts with a line that is none of the three tag lines.
AtOtherLine ==
  /\ pc = "IN_BODY"
  /\ input # <<>>
  /\ ~StartsWith(input, TagIFrame)
  /\ ~StartsWith(input, TagStream)
  /\ ~StartsWith(input, TagMedia)
AfterFirstLine(t) == Drop(t, PrefixLen(t, {LF}) + 1)

\* C8 (unknown-line tolerance): a body line that is none of the three tag
\* lines, the last line of the input included, is consumed without error and
\* leaves the playlist as it is.
C8_OtherLineDiscarded ==
  AtOtherLine =>
    /\ BodyStep(input, playlist).ok
    /\ BodyStep(input, playlist).val = playlist
    /\ BodyStep(input, playlist).rest = AfterFirstLine(input)

\* C9 (StreamVariant URI is mandatory): no variant of the playlist has an
\* empty uri.
C9_UriNotEmpty ==
  \A i \in DOMAIN playlist.variants : playlist.variants[i].uri # <<>>

\* The text begins with the line #EXTM3U.
HeaderLine(t) ==
  StartsWith(t, TagExtM3U \o <<LF>>) \/ StartsWith(t, TagExtM3U \o <<CR, LF>>)

\* C10 (header gate): on a text that does not begin with the line #EXTM3U the
\* parse never leaves BEFORE_HEADER: it fails there with a ParseError, having
\* consumed nothing and built nothing.
C10_HeaderGate ==
  ~HeaderLine(text) =>
    /\ pc \in {"BEFORE_HEADER", "FAILED"}
    /\ input = text
    /\ playlist = EmptyPlaylist
    /\ pc = "BEFORE_HEADER" => ~parse_playlist(text).ok
    /\ pc = "FAILED" => error[1].kind = "ParseError"

\* A text that begins with #EXTM3U, but not as a line, was refused.
C10_Witness ==
  /\ pc = "FAILED"
  /\ StartsWith(text, TagExtM3U)
  /\ ~HeaderLine(text)
  /\ error # None
  /\ error[1].kind = "ParseError"
  /\ input = text

(***************************************************************************)
(* Properties of the document layout                                       *)
(***************************************************************************)
\* The lines of a text that ends with a line feed, and its tag blocks: a tag
\* line of one of the three kinds (a stream tag line together with the line
\* after it), or another line.
LinesOf(t) == IF t = <<>> THEN <<>> ELSE Split(Take(t, Len(t) - 1), LF)
KindOfLine(l) ==
  IF StartsWith(l, TagIFrame) THEN "iframe"
  ELSE IF StartsWith(l, TagStream) THEN "stream"
  ELSE IF StartsWith(l, TagMedia) THEN "media"
  ELSE "other"
RECURSIVE BlocksFrom(_, _)
BlocksFrom(lines, i) ==
  IF i > Len(lines) THEN <<>>
  ELSE IF KindOfLine(lines[i]) = "stream" /\ i < Len(lines)
    THEN <<[kind |-> "stream", text |-> lines[i] \o <<LF>> \o lines[i + 1]]>>
         \o BlocksFrom(lines, i + 2)
  ELSE <<[kind |-> KindOfLine(lines[i]), text |-> lines[i]]>>
       \o BlocksFrom(lines, i + 1)
BodyOf(t) == Drop(t, Len(HeaderLF))
FlagLine(t) == StartsWith(BodyOf(t), TagIndependentSegments \o <<LF>>)
BlocksOf(t) ==
  BlocksFrom(LinesOf(BodyOf(t)), IF FlagLine(t) THEN 2 ELSE 1)
OfKind(blocks, kind) ==
  LET sel == SelectSeq(blocks, LAMBDA b : b.kind = kind)
  IN [i \in DOMAIN sel |-> sel[i].text]

\* The document with the tag blocks of t kind by kind, each kind in the order
\* it has in t, in the order given by kinds.
Regrouped(t, kinds) ==
  HeaderLF
  \o (IF FlagLine(t) THEN TagIndependentSegments \o <<LF>> ELSE <<>>)
  \o WriteLines(OfKind(BlocksOf(t), kinds[1]))
  \o WriteLines(OfKind(BlocksOf(t), kinds[2]))
  \o WriteLines(OfKind(BlocksOf(t), kinds[3]))
  \o WriteLines(OfKind(BlocksOf(t), kinds[4]))
LFTerminated(t) == StartsWith(t, HeaderLF) /\ t[Len(t)] = LF

\* C11 (fixed section order): the text written for a parsed document is the
\* text written for every document that holds the same tag blocks, each kind
\* in the same relative order, interleaved differently.
C11_SameOutput ==
  (pc = "WRITTEN" /\ pass = 1 /\ LFTerminated(text)) =>
    \A kinds \in {<<"media", "stream", "iframe", "other">>,
                  <<"iframe", "stream", "media", "other">>} :
      /\ parse_playlist(Regrouped(text, kinds)).ok
      /\ write_to(parse_playlist(Regrouped(text, kinds)).val) = outputs[1]

\* The lines of a text, ended by a line feed or by the end of the text, and
\* those among them that are tag lines of a kind.
AllLines(t) ==
  IF t = <<>> THEN <<>>
  ELSE IF t[Len(t)] = LF THEN LinesOf(t)
  ELSE Split(t, LF)
TagLines(t, kind) == SelectSeq(AllLines(t), LAMBDA l : KindOfLine(l) = kind)

\* The record a tag line gives when parsed alone; a variant without its uri.
RecordOf(kind, line) ==
  IF kind = "media" THEN parse_media_track(line).val
  ELSE IF kind = "iframe" THEN parse_iframe_stream(line).val
  ELSE parse_stream_variant(line \o <<LF>>).val
WithoutUri(kind, rec) ==
  IF kind = "stream" THEN [rec EXCEPT !.uri = <<>>] ELSE rec

\* C12 (dispatch and append order): the playlist returned for a document
\* holds, kind by kind, one record for each tag line of that kind, in the
\* order of the tag lines, each record built from its own tag line.
C12_OnePerTagLine ==
  (pc = "DONE" /\ pass = 1) =>
    \A kind \in Kinds :
      /\ Len(Coll(playlist, kind)) = Len(TagLines(text, kind))
      /\ \A i \in DOMAIN Coll(playlist, kind) :
           WithoutUri(kind, Coll(playlist, kind)[i])
             = RecordOf(kind, TagLines(text, kind)[i])

(***************************************************************************)
(* Properties of the record parsers                                        *)
(***************************************************************************)
\* The values of the fields a media track has.
MediaValues(m) == {m[f][1] : f \in {g \in DOMAIN m : m[g] # None}}

\* C13 (attribute values stay on their line): parse_media_track, applied to
\* input that starts with an EXT-X-MEDIA tag line, gives values without a line
\* terminator and consumes nothing after the terminator of that line.
C13_ValuesOnLine ==
  (/\ pc = "IN_BODY"
   /\ StartsWith(input, TagMedia)
   /\ parse_media_track(input).ok) =>
    /\ \A v \in MediaValues(parse_media_track(input).val) : OneLine(v)
    /\ Len(parse_media_track(input).rest) >= Len(AfterFirstLine(input))

(***************************************************************************)
(* Properties of the body loop                                             *)
(***************************************************************************)
\* An iteration of the body loop, and the return of the parser.
LoopIteration == pc = "IN_BODY" /\ input # <<>>
Returns == pc # "DONE" /\ pc' = "DONE"

\* C14 (termination): every parse that starts ends, returned or failed; an
\* iteration of the body loop leaves strictly less input or fails the parse;
\* the parser returns only from IN_BODY with no input left.
C14_Terminates ==
  /\ (pc = "BEFORE_HEADER") ~> (pc \in {"DONE", "FAILED"})
  /\ [][/\ LoopIteration =>
             \/ pc' = "IN_BODY" /\ Len(input') < Len(input)
             \/ pc' = "FAILED" /\ error' # None
        /\ Returns => pc = "IN_BODY" /\ input = <<>> /\ input' = <<>>]_vars

\* A document of two body lines, one of them no tag line, was parsed to its
\* end: the loop ran twice and the parser returned.
C14_Witness ==
  /\ pc = "DONE"
  /\ pass = 1
  /\ input = <<>>
  /\ Len(AllLines(BodyOf(text))) = 2
  /\ Len(playlist.frames) = 1
  /\ Len(TagLines(BodyOf(text), "other")) = 1

(***************************************************************************)
(* Properties of the failure report                                        *)
(***************************************************************************)
\* C15 (failure kind): a failed parse reports Incomplete exactly when the
\* failing parser was at the end of the input, and ParseError when it was
\* given input that did not match.
C15_FailureKind ==
  pc = "FAILED" =>
    /\ error[1].kind \in {"Incomplete", "ParseError"}
    /\ error[1].kind = "Incomplete" <=> error[1].input = <<>>

(***************************************************************************)
(* Properties of the numeric attributes                                    *)
(***************************************************************************)
\* The attribute list of a tag block, the raw value of the last attribute
\* with a key (None without one), and the record the block gave.
BlockAttrs(src) ==
  IF src.kind = "stream" THEN src.variants[1].attrs ELSE src.frames[1]
LastOf(attrs, key) ==
  LET I == {i \in DOMAIN attrs : attrs[i].key = key}
  IN IF I = {} THEN None ELSE Some(attrs[CHOOSE i \in I : \A j \in I : i >= j].raw)
BlockRecord == Coll(playlist, source.kind)[1]

\* A text that is an unsigned 32-bit integer: an optional '+', digits, at
\* most 2^32 - 1.
IsU32(t) ==
  LET ds == IF t # <<>> /\ t[1] = "+" THEN Tail(t) ELSE t
  IN /\ ds # <<>>
     /\ \A i \in DOMAIN ds : ds[i] \in Digits
     /\ CmpU32(StripZeros(ds), U32Max) # Greater
BadU32(attrs, key) == LastOf(attrs, key) # None /\ ~IsU32(LastOf(attrs, key)[1])

\* The block with 7 for every BANDWIDTH and AVERAGE-BANDWIDTH value that is
\* no unsigned 32-bit integer, and what its parser gives for it.
ValidU32s(attrs) ==
  [i \in DOMAIN attrs |->
     IF attrs[i].key \in {K_BANDWIDTH, K_AVERAGE_BANDWIDTH} /\ ~IsU32(attrs[i].raw)
       THEN Attr(attrs[i].key, <<"7">>)
     ELSE attrs[i]]
WithAttrs(src, attrs) ==
  IF src.kind = "stream" THEN [src EXCEPT !.variants[1].attrs = attrs]
  ELSE [src EXCEPT !.frames[1] = attrs]
ParsedBlock(src) ==
  IF src.kind = "stream" THEN parse_stream_variant(Render(src))
  ELSE parse_iframe_stream(Render(src))
WithValidU32s == ParsedBlock(WithAttrs(source, ValidU32s(BlockAttrs(source))))

\* C16 (numeric leniency): a stream or I-frame tag block fails to parse only
\* if it fails with its BANDWIDTH and AVERAGE-BANDWIDTH values made valid;
\* its record has bandwidth 0 when the BANDWIDTH value is no unsigned 32-bit
\* integer, average_bandwidth Some(0) when the AVERAGE-BANDWIDTH value is
\* none, and every other field as with valid values.
C16_Lenient ==
  /\ pc = "FAILED" => ~WithValidU32s.ok
  /\ pc = "DISPLAYED" =>
       /\ WithValidU32s.ok
       /\ \A f \in DOMAIN BlockRecord \ {"bandwidth", "average_bandwidth"} :
            BlockRecord[f] = WithValidU32s.val[f]
       /\ BlockRecord.bandwidth =
            IF BadU32(BlockAttrs(source), K_BANDWIDTH) THEN Zero
            ELSE WithValidU32s.val.bandwidth
       /\ source.kind = "stream" =>
            BlockRecord.average_bandwidth =
              IF BadU32(BlockAttrs(source), K_AVERAGE_BANDWIDTH) THEN Some(Zero)
              ELSE WithValidU32s.val.average_bandwidth

\* A stream block with a BANDWIDTH above 2^32 - 1, an AVERAGE-BANDWIDTH that
\* is no integer and a CODECS attribute gave a record with 0, Some(0) and the
\* codecs.
C16_Witness ==
  /\ pc = "DISPLAYED"
  /\ source.kind = "stream"
  /\ LastOf(BlockAttrs(source), K_BANDWIDTH)
       = Some(<<"4", "2", "9", "4", "9", "6", "7", "2", "9", "6">>)
  /\ LastOf(BlockAttrs(source), K_AVERAGE_BANDWIDTH) = Some(<<"7", ".", "5">>)
  /\ BlockRecord.bandwidth = Zero
  /\ BlockRecord.average_bandwidth = Some(Zero)
  /\ BlockRecord.codecs = Some(<<"c">>)

\* A text that splits on 'x' into exactly two unsigned 32-bit integers.
IsWxH(t) ==
  \E i \in DOMAIN t :
    /\ t[i] = "x"
    /\ IsU32(SubSeq(t, 1, i - 1))
    /\ IsU32(SubSeq(t, i + 1, Len(t)))
    /\ \A j \in DOMAIN t : t[j] = "x" => j = i

\* C17 (resolution rule): a stream or I-frame tag block with a RESOLUTION
\* attribute parses whatever the value is; the record has the resolution
\* (width, height) when the value is two integers around one 'x', and none
\* for any other value.
C17_ResolutionRule ==
  (pc = "DISPLAYED" /\ LastOf(BlockAttrs(source), K_RESOLUTION) # None) =>
    IF IsWxH(LastOf(BlockAttrs(source), K_RESOLUTION)[1])
      THEN BlockRecord.resolution
             = Some(Split(LastOf(BlockAttrs(source), K_RESOLUTION)[1], "x"))
    ELSE BlockRecord.resolution = None

(***************************************************************************)
(* Further properties of the document parser                               *)
(***************************************************************************)
\* C18 (IFrameStream URI is mandatory): no I-frame stream of the playlist has
\* the empty placeholder as its uri.
C18_IFrameUri ==
  \A i \in DOMAIN playlist.frames : playlist.frames[i].uri # <<>>

\* The line after the first one, without its terminator (None without one),
\* and the lines after it.
WithoutCR(l) == IF l # <<>> /\ l[Len(l)] = CR THEN Take(l, Len(l) - 1) ELSE l
SecondLine(t) ==
  IF Len(AllLines(t)) < 2 THEN None ELSE Some(WithoutCR(AllLines(t)[2]))
FlagFollowsHeader(t) == SecondLine(t) = Some(TagIndependentSegments)
FlagLineLater(t) ==
  \E i \in DOMAIN AllLines(t) : i > 2 /\ WithoutCR(AllLines(t)[i]) = TagIndependentSegments

\* C19 (independent-segments flag): the flag of a returned playlist is true
\* exactly when the line after the header is #EXT-X-INDEPENDENT-SEGMENTS; in
\* the body loop that line is taken by the branch of the unrecognized lines,
\* which leaves the playlist as it is; the flag changes only in the step
\* before the body loop (and when a new parse starts).
C19_Flag ==
  /\ [](/\ pc \in {"DONE", "WRITTEN"} =>
             playlist.independent_segments = FlagFollowsHeader(text)
        /\ (pc = "IN_BODY" /\ StartsWith(input, TagIndependentSegments)) =>
             /\ Dispatch(input) = "skip"
             /\ BodyStep(input, playlist).ok =>
                  BodyStep(input, playlist).val = playlist)
  /\ [][playlist'.independent_segments # playlist.independent_segments =>
          pc \in {"AFTER_HEADER", "WRITTEN"}]_vars

\* A document with the line only after a tag block was parsed to its end, the
\* flag false and the tag block in the playlist.
C19_Witness ==
  /\ pc = "DONE"
  /\ pass = 1
  /\ ~FlagFollowsHeader(text)
  /\ FlagLineLater(text)
  /\ ~playlist.independent_segments
  /\ Len(playlist.frames) = 1

====
